---------------------------- MODULE Spec2Model ----------------------------
(***************************************************************************)
(* A model of caddy-gcs-proxy: the gcsproxy HTTP handler that serves GET,  *)
(* PUT and DELETE requests from a Google Cloud Storage bucket.             *)
(*                                                                         *)
(* Strings are sequences of one-character strings, so that the string      *)
(* functions of the source (path joining, prefix tests, glob matching,     *)
(* lower-casing) are computed and not assumed.                             *)
(***************************************************************************)
EXTENDS Integers, Sequences, FiniteSets, TLC

VARIABLES
    p,          \* the provisioned GcsProxy (its configuration fields)
    store,      \* the bucket: the objects' names -> their generations
    generation, \* the last generation the bucket handed out
    pc,         \* "idle", "pending" (request accepted), "served"
    req,        \* the request given to ServeHTTP: method and URL path
    resp,       \* what ServeHTTP did for it: its run and the error returned
    p2,         \* a second gcsproxy handler, over a bucket of its own
    store2,     \* the bucket of the second handler
    resp2,      \* what the second handler did for the same request
    filename,   \* fileHidden: the key under test
    hide,       \* fileHidden: the hide list under test
    hpc,        \* fileHidden: "call" before the call, "done" after it
    hidden,     \* fileHidden: the value returned
    jcall,      \* joinPath: its arguments, its outcome, the outcome re-joined
    parser,     \* parseCaddyfileWithDispenser: the dispenser and the proxy
    pool,       \* bufPool, its buffers and the calls of GenerateJson/Html
    pager       \* a listing, its iterator and the page object being made

vars ==
    <<p, store, generation, pc, req, resp, p2, store2, resp2,
      filename, hide, hpc, hidden, jcall, parser, pool, pager>>

----------------------------------------------------------------------------
(* Bounds of the model. *)

MaxKeyLen == 3      \* longest key drawn for fileHidden
MaxPatLen == 2      \* longest hide pattern drawn for fileHidden
MaxHide == 1        \* longest hide list drawn for fileHidden
MaxRootLen == 2     \* longest root drawn for joinPath
MaxPathLen == 3     \* longest request path drawn for joinPath
MaxLines == 3       \* most lines of a gcsproxy block given to the parser
MaxCallers == 2     \* goroutines that serialize page objects concurrently
MaxRounds == 2      \* calls of GenerateJson/GenerateHtml by one goroutine
MaxBuffers == 3     \* buffers bufPool.New makes

----------------------------------------------------------------------------
(* Strings. *)

sep == "/"

SeqsUpTo(S, n) == UNION {[1..k -> S] : k \in 0..n}

HasPrefix(s, prefix) ==
    /\ Len(prefix) <= Len(s)
    /\ SubSeq(s, 1, Len(prefix)) = prefix

HasSuffix(s, suffix) ==
    /\ Len(suffix) <= Len(s)
    /\ SubSeq(s, Len(s) - Len(suffix) + 1, Len(s)) = suffix

TrimPrefix(s, prefix) ==
    IF HasPrefix(s, prefix) THEN SubSeq(s, Len(prefix) + 1, Len(s)) ELSE s

\* strings.Contains(s, c) for a one-character c
Contains(s, c) == \E i \in 1..Len(s) : s[i] = c

\* strings.Split(s, c) for a one-character c: never empty, "" gives <<"">>
RECURSIVE Split(_, _)
Split(s, c) ==
    IF ~Contains(s, c)
    THEN <<s>>
    ELSE LET i == CHOOSE j \in 1..Len(s) :
                      /\ s[j] = c
                      /\ \A k \in 1..(j - 1) : s[k] # c
         IN  <<SubSeq(s, 1, i - 1)>> \o Split(SubSeq(s, i + 1, Len(s)), c)

\* filepath.Match(pattern, name) for patterns made of literals, '*' and '?':
\* '*' matches any run of non-separator characters, '?' one non-separator
\* character, anything else itself; the whole name must be matched.
RECURSIVE MatchFrom(_, _, _, _)
MatchFrom(pattern, i, name, j) ==
    IF i > Len(pattern)
    THEN j > Len(name)
    ELSE IF pattern[i] = "*"
    THEN \E k \in j..(Len(name) + 1) :
             /\ \A m \in j..(k - 1) : name[m] # sep
             /\ MatchFrom(pattern, i + 1, name, k)
    ELSE IF pattern[i] = "?"
    THEN /\ j <= Len(name)
         /\ name[j] # sep
         /\ MatchFrom(pattern, i + 1, name, j + 1)
    ELSE /\ j <= Len(name)
         /\ name[j] = pattern[i]
         /\ MatchFrom(pattern, i + 1, name, j + 1)

Match(pattern, name) == MatchFrom(pattern, 1, name, 1)

----------------------------------------------------------------------------
(* fileHidden (gcsproxy.go): one pass over the hide list, returning at the *)
(* first pattern that matches by component, by prefix or by glob.          *)

\* a pattern without separator is compared with each component of the key
ComponentHidden(name, h) ==
    /\ ~Contains(h, sep)
    /\ \E i \in 1..Len(Split(name, sep)) : Split(name, sep)[i] = h

\* mutant: the prefix test without the separator boundary
PrefixHiddenNoBoundary(name, h) ==
    /\ Contains(h, sep)
    /\ HasPrefix(name, h)

\* a pattern with a separator hides what it prefixes up to a separator
PrefixHidden(name, h) ==
    /\ Contains(h, sep)
    /\ HasPrefix(name, h)
    /\ HasPrefix(TrimPrefix(name, h), <<sep>>)

RECURSIVE fileHiddenFrom(_, _, _)
fileHiddenFrom(name, hideList, i) ==
    IF i > Len(hideList)
    THEN FALSE
    ELSE LET h == hideList[i]
         IN  IF ComponentHidden(name, h)
             THEN TRUE
             ELSE IF PrefixHidden(name, h)
             THEN TRUE
             ELSE IF Match(h, name)
             THEN TRUE
             ELSE fileHiddenFrom(name, hideList, i + 1)

fileHidden(name, hideList) == fileHiddenFrom(name, hideList, 1)


----------------------------------------------------------------------------
(* path.Clean and path.Join of the Go library, and joinPath (gcsproxy.go). *)

dot == "."

Last(s) == s[Len(s)]

\* the components of a path that survive cleaning, as a stack
RECURSIVE CleanComponents(_, _, _, _)
CleanComponents(comps, i, stack, rooted) ==
    IF i > Len(comps)
    THEN stack
    ELSE LET c == comps[i]
         IN  IF c = <<>> \/ c = <<dot>>
             THEN CleanComponents(comps, i + 1, stack, rooted)
             ELSE IF c = <<dot, dot>>
             THEN IF stack # <<>> /\ Last(stack) # <<dot, dot>>
                  THEN CleanComponents(comps, i + 1,
                                       SubSeq(stack, 1, Len(stack) - 1), rooted)
                  ELSE IF rooted
                  THEN CleanComponents(comps, i + 1, stack, rooted)
                  ELSE CleanComponents(comps, i + 1, Append(stack, c), rooted)
             ELSE CleanComponents(comps, i + 1, Append(stack, c), rooted)

\* strings.Join(elems, c)
RECURSIVE JoinWith(_, _)
JoinWith(elems, c) ==
    IF elems = <<>>
    THEN <<>>
    ELSE IF Len(elems) = 1
    THEN elems[1]
    ELSE elems[1] \o <<c>> \o JoinWith(Tail(elems), c)

Clean(path) ==
    IF path = <<>>
    THEN <<dot>>
    ELSE LET rooted == path[1] = sep
             orDot(out) == IF out = <<>> THEN <<dot>> ELSE out
             joined(stack) ==
                 orDot((IF rooted THEN <<sep>> ELSE <<>>) \o JoinWith(stack, sep))
         IN  joined(CleanComponents(Split(path, sep), 1, <<>>, rooted))

\* path.Join of two elements: empty elements are ignored, "" when both are
PathJoin(a, b) ==
    IF a = <<>> /\ b = <<>>
    THEN <<>>
    ELSE IF a = <<>>
    THEN Clean(b)
    ELSE Clean(a \o <<sep>> \o b)

\* mutant: the trailing separator that Join strips is not put back
joinPathStripped(root, uriPath) == PathJoin(root, uriPath)

\* joinPath(root, uriPath), for the non-empty paths ServeHTTP is given
joinPath(root, uriPath) ==
    LET isDir == Last(uriPath) = sep
        slashed(newPath) ==
            IF isDir /\ newPath # <<sep>>
            THEN newPath \o <<sep>>
            ELSE newPath
    IN  slashed(PathJoin(root, uriPath))

----------------------------------------------------------------------------
(* HTTP status codes and the strings of the configuration. *)

StatusOK == 200
StatusNotModified == 304
StatusForbidden == 403
StatusNotFound == 404
StatusMethodNotAllowed == 405
StatusPreconditionFailed == 412
StatusRequestedRangeNotSatisfiable == 416
StatusInternalServerError == 500

indexHtml == <<"i", "n", "d", "e", "x", ".", "h", "t", "m", "l">>
indexTxt == <<"i", "n", "d", "e", "x", ".", "t", "x", "t">>
defaultIndexNames == <<indexHtml, indexTxt>>

pass_through == <<"p", "a", "s", "s", "_", "t", "h", "r", "o", "u", "g", "h">>

\* strings.ToLower on the letters the configuration strings use
UpperToLower ==
    [c \in {"P", "A", "S", "T", "H", "R", "O", "U", "G"} |->
        CASE c = "P" -> "p" [] c = "A" -> "a" [] c = "S" -> "s"
          [] c = "T" -> "t" [] c = "H" -> "h" [] c = "R" -> "r"
          [] c = "O" -> "o" [] c = "U" -> "u" [] c = "G" -> "g"]

ToLower(s) ==
    [i \in 1..Len(s) |->
        IF s[i] \in DOMAIN UpperToLower THEN UpperToLower[s[i]] ELSE s[i]]

----------------------------------------------------------------------------
(* The bucket and the calls the handler makes on it.  A store call returns *)
(* nil, storage.ErrObjectNotExist ("notexist"), a precondition failure of  *)
(* the service ("precondition") or any other error ("other").  The call    *)
(* numbered fault.at of a request fails with fault.err whatever the bucket *)
(* holds; fault.sent tells whether a failing body copy had already sent    *)
(* bytes to the client.                                                    *)

MaxGen == 2         \* generations the bucket hands out
MaxFaultAt == 4     \* a request's store calls among which a fault may fall

ErrClasses == {"notexist", "precondition", "other"}

NoFault == [at |-> 0, err |-> "other", sent |-> FALSE]

Faults ==
    {NoFault}
        \cup [at : 1..MaxFaultAt, err : ErrClasses, sent : {FALSE}]
        \cup [at : 1..MaxFaultAt, err : {"other"}, sent : {TRUE}]

Exists(st, key) == key \in DOMAIN st

Generation(st, key) == IF Exists(st, key) THEN st[key] ELSE 0

\* what the handler has done so far while serving one request
NewRun ==
    [ops    |-> <<>>,   \* store calls, in order
     wrote  |-> <<>>,   \* status codes given to w.WriteHeader, in order
     late   |-> 0,      \* calls of w.WriteHeader made after body bytes
     status |-> 0,      \* status line sent to the client, 0 while unsent
     body   |-> <<>>,   \* body sent: the objects streamed, in order
     etag   |-> 0,      \* generation in the ETag header, 0 when not set
     next   |-> 0,      \* calls of next.ServeHTTP
     opened |-> <<>>,   \* readers opened, by key
     closed |-> <<>>]   \* readers closed, by key

\* the fault as far as the run met it: no fault when the run made fewer calls
Struck(h, fault) == IF fault.at \in 1..Len(h.ops) THEN fault ELSE NoFault

\* the result of the next store call of the run
Outcome(h, op, key, st, fault) ==
    IF fault.at = Len(h.ops) + 1
    THEN fault.err
    ELSE IF op \in {"NewReader", "Attrs", "Delete"} /\ ~Exists(st, key)
    THEN "notexist"
    ELSE "nil"

\* the call is made: it is recorded with its result.  cond is the
\* GenerationMatch condition of the object handle, 0 when it has none: the
\* handlers call on p.bucket.Object(key) as it is.
Call(h, op, key, st, fault) ==
    [h EXCEPT !.ops = Append(@, [op   |-> op,
                                 key  |-> key,
                                 cond |-> 0,
                                 err  |-> Outcome(h, op, key, st, fault)])]

OpenReader(h, key) == [h EXCEPT !.opened = Append(@, key)]

CloseReader(h, key) == [h EXCEPT !.closed = Append(@, key)]

\* http.ResponseWriter.WriteHeader: only the first status reaches the client
WriteHeader(h, code) ==
    [h EXCEPT !.wrote = Append(@, code),
              !.late = IF h.body # <<>> THEN @ + 1 ELSE @,
              !.status = IF @ = 0 THEN code ELSE @]

\* http.ResponseWriter.Write: sends 200 first when no status was sent
WriteBody(h, key, whole) ==
    [h EXCEPT !.body = Append(@, [key |-> key, whole |-> whole]),
              !.status = IF @ = 0 THEN StatusOK ELSE @]

\* w.Header().Set("ETag", ...): headers set after the status line are lost
SetETag(h, gen) == [h EXCEPT !.etag = IF h.status = 0 THEN gen ELSE @]

NilErr == [kind |-> "nil", code |-> 0]
PlainErr == [kind |-> "plain", code |-> 0]
CaddyErr(code) == [kind |-> "caddy", code |-> code]

convertToCaddyError(err) ==
    IF err = "nil"
    THEN NilErr
    ELSE IF err = "notexist"
    THEN CaddyErr(StatusNotFound)
    ELSE CaddyErr(StatusInternalServerError)

----------------------------------------------------------------------------
(* The handlers.  Each returns the run so far, the error returned and,     *)
(* where the bucket can change, the bucket.                                *)

\* a store call of the run: the run with the call recorded, and its result
StoreCall(h, op, key, st, fault) ==
    [h |-> Call(h, op, key, st, fault), err |-> Outcome(h, op, key, st, fault)]

\* writeResponseFromGetObject: headers from the attributes, then the body
writeResponseFromGetObject(h, key, st, fault) ==
    LET copied(c) ==
            IF c.err = "nil"
            THEN [h |-> WriteBody(c.h, key, TRUE), err |-> NilErr]
            ELSE [h   |-> IF fault.sent THEN WriteBody(c.h, key, FALSE) ELSE c.h,
                  err |-> PlainErr]
    IN  copied(StoreCall(SetETag(h, Generation(st, key)), "Read", key, st, fault))

\* mutant: a failed fetch of the error document answers 500 instead
serveErrorPageRewrites(h, gcsKey, st, fault) ==
    LET afterAttrs(c) ==
            IF c.err # "nil"
            THEN WriteHeader(CloseReader(c.h, gcsKey), StatusInternalServerError)
            ELSE CloseReader(
                     writeResponseFromGetObject(c.h, gcsKey, st, fault).h,
                     gcsKey)
        afterReader(c) ==
            IF c.err # "nil"
            THEN WriteHeader(c.h, StatusInternalServerError)
            ELSE afterAttrs(StoreCall(OpenReader(c.h, gcsKey),
                                      "Attrs", gcsKey, st, fault))
    IN  afterReader(StoreCall(h, "NewReader", gcsKey, st, fault))

\* serveErrorPage: the error returned is only logged by the caller
serveErrorPage(h, gcsKey, st, fault) ==
    LET afterAttrs(c) ==
            IF c.err # "nil"
            THEN CloseReader(c.h, gcsKey)
            ELSE CloseReader(
                     writeResponseFromGetObject(c.h, gcsKey, st, fault).h,
                     gcsKey)
        afterReader(c) ==
            IF c.err # "nil"
            THEN c.h
            ELSE afterAttrs(StoreCall(OpenReader(c.h, gcsKey),
                                      "Attrs", gcsKey, st, fault))
    IN  afterReader(StoreCall(h, "NewReader", gcsKey, st, fault))

\* BrowseHandler: lists the prefix and returns; it writes no response
BrowseHandler(h, key, st, fault) ==
    LET listed(c) == [h |-> c.h, err |-> convertToCaddyError(c.err)]
    IN  listed(StoreCall(h, "List", key, st, fault))

\* mutant: the loop gives up at a candidate that fails with another error
\* than not-exist
RECURSIVE ProbeIndexGiveUp(_, _, _, _, _, _)
ProbeIndexGiveUp(pp, st, fullPath, fault, i, h) ==
    IF i > Len(pp.IndexNames)
    THEN [h |-> h, found |-> 0]
    ELSE LET afterAttrs(c, indexPath) ==
                 IF c.err = "nil"
                 THEN [h |-> c.h, found |-> i]
                 ELSE ProbeIndexGiveUp(pp, st, fullPath, fault, i + 1,
                                       CloseReader(c.h, indexPath))
             afterReader(c, indexPath) ==
                 IF c.err = "notexist"
                 THEN ProbeIndexGiveUp(pp, st, fullPath, fault, i + 1, c.h)
                 ELSE IF c.err # "nil"
                 THEN [h |-> c.h, found |-> 0]
                 ELSE afterAttrs(StoreCall(OpenReader(c.h, indexPath),
                                           "Attrs", indexPath, st, fault),
                                 indexPath)
             probe(indexPath) ==
                 afterReader(StoreCall(h, "NewReader", indexPath, st, fault),
                             indexPath)
         IN  probe(PathJoin(fullPath, pp.IndexNames[i]))

\* the index loop of GetHandler from candidate i on: found is the candidate
\* whose reader and attributes were both obtained, 0 when there is none
RECURSIVE ProbeIndex(_, _, _, _, _, _)
ProbeIndex(pp, st, fullPath, fault, i, h) ==
    IF i > Len(pp.IndexNames)
    THEN [h |-> h, found |-> 0]
    ELSE LET afterAttrs(c, indexPath) ==
                 IF c.err = "nil"
                 THEN [h |-> c.h, found |-> i]
                 ELSE ProbeIndex(pp, st, fullPath, fault, i + 1,
                                 CloseReader(c.h, indexPath))
             afterReader(c, indexPath) ==
                 IF c.err # "nil"
                 THEN ProbeIndex(pp, st, fullPath, fault, i + 1, c.h)
                 ELSE afterAttrs(StoreCall(OpenReader(c.h, indexPath),
                                           "Attrs", indexPath, st, fault),
                                 indexPath)
             probe(indexPath) ==
                 afterReader(StoreCall(h, "NewReader", indexPath, st, fault),
                             indexPath)
         IN  probe(PathJoin(fullPath, pp.IndexNames[i]))

\* GetHandler past its visibility check
GetVisible(pp, st, fullPath, fault, h) ==
    LET dirKey == HasSuffix(fullPath, <<sep>>)
        served(w) == [h |-> CloseReader(w.h, fullPath), err |-> w.err]
        afterAttrs(c) ==
            IF c.err # "nil"
            THEN [h   |-> CloseReader(c.h, fullPath),
                  err |-> convertToCaddyError(c.err)]
            ELSE served(writeResponseFromGetObject(c.h, fullPath, st, fault))
        afterReader(c) ==
            IF c.err = "notexist"
            THEN [h |-> c.h, err |-> CaddyErr(StatusNotFound)]
            ELSE IF c.err # "nil"
            THEN [h |-> c.h, err |-> convertToCaddyError(c.err)]
            ELSE afterAttrs(StoreCall(OpenReader(c.h, fullPath),
                                      "Attrs", fullPath, st, fault))
        afterIndex(probe) ==
            IF dirKey /\ probe.found = 0
            THEN IF pp.EnableBrowse
                 THEN BrowseHandler(probe.h, fullPath, st, fault)
                 ELSE [h |-> probe.h, err |-> CaddyErr(StatusForbidden)]
            ELSE IF probe.found # 0
            THEN \* the index reader is streamed; nothing here closes it
                 writeResponseFromGetObject(
                     probe.h, PathJoin(fullPath, pp.IndexNames[probe.found]),
                     st, fault)
            ELSE afterReader(StoreCall(probe.h, "NewReader", fullPath, st, fault))
    IN  afterIndex(IF dirKey /\ Len(pp.IndexNames) > 0
                   THEN ProbeIndex(pp, st, fullPath, fault, 1, h)
                   ELSE [h |-> h, found |-> 0])

\* mutant: GetHandler without its visibility check
GetHandlerNoHide(pp, st, fullPath, fault, h) ==
    GetVisible(pp, st, fullPath, fault, h)

GetHandler(pp, st, fullPath, fault, h) ==
    IF fileHidden(fullPath, pp.Hide)
    THEN [h |-> h, err |-> CaddyErr(StatusNotFound)]
    ELSE GetVisible(pp, st, fullPath, fault, h)

\* PutHandler: the body is copied to a writer, the writer is closed (which
\* creates the object under a new generation) and the attributes are read
\* for the ETag.  EnablePut is not read.
PutHandler(pp, st, gen, key, fault, h) ==
    LET afterAttrs(c, st2) ==
            [h   |-> IF c.err = "nil" THEN SetETag(c.h, st2[key]) ELSE c.h,
             err |-> NilErr, st |-> st2, gen |-> gen + 1]
        created(h2, st2) ==
            afterAttrs(StoreCall(h2, "Attrs", key, st2, fault), st2)
        afterClose(c) ==
            IF c.err # "nil"
            THEN [h |-> c.h, err |-> convertToCaddyError(c.err),
                  st |-> st, gen |-> gen]
            ELSE created(c.h, (key :> (gen + 1)) @@ st)
        afterWrite(c) ==
            IF c.err # "nil"
            THEN [h |-> c.h, err |-> convertToCaddyError(c.err),
                  st |-> st, gen |-> gen]
            ELSE afterClose(StoreCall(c.h, "Close", key, st, fault))
    IN  afterWrite(StoreCall(h, "Write", key, st, fault))

\* mutant: a directory key is deleted like any other when deletes are on
DeleteHandlerAnyKey(pp, st, key, fault, h) ==
    LET deleted(c) ==
            IF c.err # "nil"
            THEN [h |-> c.h, err |-> convertToCaddyError(c.err), st |-> st]
            ELSE [h  |-> c.h, err |-> NilErr,
                  st |-> [k \in DOMAIN st \ {key} |-> st[k]]]
    IN  IF ~pp.EnableDelete
        THEN [h |-> h, err |-> CaddyErr(StatusMethodNotAllowed), st |-> st]
        ELSE deleted(StoreCall(h, "Delete", key, st, fault))

DeleteHandler(pp, st, key, fault, h) ==
    LET isDir == HasSuffix(key, <<sep>>)
        deleted(c) ==
            IF c.err # "nil"
            THEN [h |-> c.h, err |-> convertToCaddyError(c.err), st |-> st]
            ELSE [h  |-> c.h, err |-> NilErr,
                  st |-> [k \in DOMAIN st \ {key} |-> st[k]]]
    IN  IF isDir \/ ~pp.EnableDelete
        THEN [h |-> h, err |-> CaddyErr(StatusMethodNotAllowed), st |-> st]
        ELSE deleted(StoreCall(h, "Delete", key, st, fault))

determineErrorsAction(pp, statusCode) ==
    LET action(key) ==
            IF ToLower(key) = pass_through
            THEN [doPassThrough |-> TRUE, doGCSErrorPage |-> FALSE, key |-> <<>>]
            ELSE [doPassThrough |-> FALSE, doGCSErrorPage |-> key # <<>>,
                  key |-> key]
    IN  action(IF statusCode \in DOMAIN pp.ErrorPages
               THEN pp.ErrorPages[statusCode]
               ELSE IF pp.DefaultErrorPage # <<>>
               THEN pp.DefaultErrorPage
               ELSE <<>>)

\* mutant: a method the switch does not name is served like a GET
DispatchGetByDefault(pp, st, gen, r, fullPath, fault) ==
    LET got(g) == [h |-> g.h, err |-> g.err, st |-> st, gen |-> gen]
        deleted(d) == [h |-> d.h, err |-> d.err, st |-> d.st, gen |-> gen]
    IN  IF r.method = "PUT"
        THEN PutHandler(pp, st, gen, fullPath, fault, NewRun)
        ELSE IF r.method = "DELETE"
        THEN deleted(DeleteHandler(pp, st, fullPath, fault, NewRun))
        ELSE got(GetHandler(pp, st, fullPath, fault, NewRun))

\* the method switch of ServeHTTP
Dispatch(pp, st, gen, r, fullPath, fault) ==
    LET got(g) == [h |-> g.h, err |-> g.err, st |-> st, gen |-> gen]
        deleted(d) == [h |-> d.h, err |-> d.err, st |-> d.st, gen |-> gen]
    IN  IF r.method = "GET"
        THEN got(GetHandler(pp, st, fullPath, fault, NewRun))
        ELSE IF r.method = "PUT"
        THEN PutHandler(pp, st, gen, fullPath, fault, NewRun)
        ELSE IF r.method = "DELETE"
        THEN deleted(DeleteHandler(pp, st, fullPath, fault, NewRun))
        ELSE [h |-> NewRun, err |-> CaddyErr(StatusMethodNotAllowed),
              st |-> st, gen |-> gen]

\* mutant: the error path treats every method as it treats GET
ErrorPathAnyMethod(pp, r, d, fault, nextResult) ==
    LET page(h1, act) ==
            IF act.doGCSErrorPage
            THEN serveErrorPage(h1, act.key, d.st, fault)
            ELSE h1
        handle(caddyErr, code, act) ==
            IF code \in {StatusNotModified, StatusPreconditionFailed,
                         StatusRequestedRangeNotSatisfiable}
            THEN [h |-> WriteHeader(d.h, code), err |-> caddyErr, code |-> code]
            ELSE IF act.doPassThrough
            THEN [h   |-> [d.h EXCEPT !.next = @ + 1],
                  err |-> nextResult, code |-> code]
            ELSE [h   |-> page(IF code # 0 THEN WriteHeader(d.h, code) ELSE d.h,
                               act),
                  err |-> caddyErr, code |-> code]
        converted(caddyErr) ==
            handle(caddyErr, caddyErr.code,
                   determineErrorsAction(pp, caddyErr.code))
    IN  converted(IF d.err.kind = "caddy"
                  THEN d.err
                  ELSE CaddyErr(StatusInternalServerError))

\* the error path of ServeHTTP, entered with the handler's error
ErrorPath(pp, r, d, fault, nextResult) ==
    LET page(h1, act) ==
            IF act.doGCSErrorPage
            THEN serveErrorPage(h1, act.key, d.st, fault)
            ELSE h1
        handle(caddyErr, code, act) ==
            IF r.method # "GET"
            THEN [h   |-> IF code # 0 THEN WriteHeader(d.h, code) ELSE d.h,
                  err |-> caddyErr, code |-> code]
            ELSE IF code \in {StatusNotModified, StatusPreconditionFailed,
                              StatusRequestedRangeNotSatisfiable}
            THEN [h |-> WriteHeader(d.h, code), err |-> caddyErr, code |-> code]
            ELSE IF act.doPassThrough
            THEN [h   |-> [d.h EXCEPT !.next = @ + 1],
                  err |-> nextResult, code |-> code]
            ELSE [h   |-> page(IF code # 0 THEN WriteHeader(d.h, code) ELSE d.h,
                               act),
                  err |-> caddyErr, code |-> code]
        converted(caddyErr) ==
            handle(caddyErr, caddyErr.code,
                   determineErrorsAction(pp, caddyErr.code))
    IN  converted(IF d.err.kind = "caddy"
                  THEN d.err
                  ELSE CaddyErr(StatusInternalServerError))

\* ServeHTTP; a handler that returns nil without a status has 200 sent.
\* code is the status of the handler's error, 0 when it returned nil.
ServeHTTP(pp, st, gen, r, fault, nextResult) ==
    LET failed(d, e) ==
            [h  |-> e.h, err |-> e.err, code |-> e.code,
             st |-> d.st, gen |-> d.gen]
        dispatched(d) ==
            IF d.err.kind = "nil"
            THEN [h   |-> [d.h EXCEPT !.status = IF @ = 0 THEN StatusOK ELSE @],
                  err |-> NilErr, code |-> 0, st |-> d.st, gen |-> d.gen]
            ELSE failed(d, ErrorPath(pp, r, d, fault, nextResult))
    IN  dispatched(Dispatch(pp, st, gen, r, joinPath(pp.Root, r.path), fault))

----------------------------------------------------------------------------
(* The configurations, buckets and requests of the model. *)

fileUrl == <<"/", "a">>
dirUrl == <<"/", "d", "/">>
Paths == {fileUrl, dirUrl}

Methods == {"GET", "PUT", "DELETE", "POST"}

Requests == [method : Methods, path : Paths]

notFoundPage == <<"4", "0", "4", ".", "h", "t", "m", "l">>
defaultPage == <<"d", "e", "f", "a", "u", "l", "t", ".", "h", "t", "m", "l">>
PassThroughMixed == <<"P", "a", "s", "s", "_", "T", "h", "r", "o", "u", "g", "h">>
PassThroughUpper == <<"P", "A", "S", "S", "_", "T", "H", "R", "O", "U", "G", "H">>

NoPages == [c \in {} |-> <<>>]

\* <<ErrorPages, DefaultErrorPage>>: no override; a page for one status;
\* a page and a default; pass_through for a status; an empty entry and a
\* pass_through in capitals beside a default; a default pass_through
ErrorsChoices ==
    {<<NoPages, <<>> >>,
     <<StatusNotFound :> notFoundPage, <<>> >>,
     <<StatusNotFound :> notFoundPage, defaultPage>>,
     <<(StatusNotFound :> pass_through) @@ (StatusForbidden :> notFoundPage),
       <<>> >>,
     <<(StatusInternalServerError :> PassThroughUpper)
           @@ (StatusNotFound :> <<>>)
           @@ (StatusPreconditionFailed :> notFoundPage),
       defaultPage>>,
     <<NoPages, PassThroughMixed>>}

Roots == {<<"/", "r">>}

\* the hide lists: none; the file; the directory; the index document and
\* the error document
HideChoices ==
    {<<>>, << <<"a">> >>, << <<"d">> >>, <<indexHtml, notFoundPage>>}

IndexNamesChoices == {defaultIndexNames, <<indexTxt, indexHtml>>}

\* the feature flags <<EnablePut, EnableDelete, EnableBrowse>>: every pair
\* of flags takes its four combinations
FlagChoices ==
    {<<FALSE, FALSE, FALSE>>, <<FALSE, TRUE, TRUE>>,
     <<TRUE, FALSE, TRUE>>, <<TRUE, TRUE, FALSE>>}

\* GcsProxy after Provision; Root is the root after placeholder replacement
Configs ==
    {[Root             |-> root,
      IndexNames       |-> names,
      Hide             |-> hd,
      EnablePut        |-> flags[1],
      EnableDelete     |-> flags[2],
      EnableBrowse     |-> flags[3],
      ErrorPages       |-> errs[1],
      DefaultErrorPage |-> errs[2]] :
        root \in Roots, names \in IndexNamesChoices, hd \in HideChoices,
        flags \in FlagChoices, errs \in ErrorsChoices}

\* the buckets a run starts from: any of the index documents of the
\* directory, with or without the error documents, all of generation 1
InitStores(root) ==
    {[k \in idx \cup docs |-> 1] :
        idx \in SUBSET {PathJoin(joinPath(root, dirUrl), indexHtml),
                        PathJoin(joinPath(root, dirUrl), indexTxt)},
        docs \in {{}, {notFoundPage, defaultPage}}}

\* what next.ServeHTTP returns, whatever it is
NextResult == [kind |-> "next", code |-> 0]

\* a handler that serves nothing, for the runs that do not use one
IdleProxy ==
    [Root |-> <<>>, IndexNames |-> defaultIndexNames, Hide |-> <<>>,
     EnablePut |-> FALSE, EnableDelete |-> FALSE, EnableBrowse |-> FALSE,
     ErrorPages |-> NoPages, DefaultErrorPage |-> <<>>]

NoRequest == [method |-> "", path |-> <<>>]
NoResponse == [run |-> NewRun, err |-> NilErr, code |-> 0, fault |-> NoFault]

----------------------------------------------------------------------------
(* The handler at work: a request is accepted, ServeHTTP runs on it, the   *)
(* server completes the response.                                          *)

HiddenIdle ==
    /\ filename = <<>>
    /\ hide = <<>>
    /\ hpc = "off"
    /\ hidden = FALSE

\* joinPath and the parser at rest, for the runs that do not use them
NoJoin == [pc |-> "off"]
NoParse == [pc |-> "off"]
NoPool == [on |-> FALSE]
NoPager == [pc |-> "off"]

OthersIdle ==
    /\ jcall = NoJoin
    /\ parser = NoParse
    /\ pool = NoPool
    /\ pager = NoPager

TwinIdle ==
    /\ p2 = IdleProxy
    /\ store2 = <<>>
    /\ resp2 = NoResponse

Init ==
    /\ p \in Configs
    /\ store \in InitStores(p.Root)
    /\ generation = 1
    /\ pc = "idle"
    /\ req = NoRequest
    /\ resp = NoResponse
    /\ TwinIdle
    /\ HiddenIdle
    /\ OthersIdle

Receive ==
    /\ pc = "idle"
    /\ \E r \in Requests :
          /\ r.method = "PUT" => generation < MaxGen
          /\ req' = r
    /\ pc' = "pending"
    /\ UNCHANGED <<p, store, generation, resp, p2, store2, resp2,
                   filename, hide, hpc, hidden, jcall, parser,
                   pool, pager>>

Serve ==
    /\ pc = "pending"
    /\ \E fault \in Faults :
          \E out \in {ServeHTTP(p, store, generation, req, fault, NextResult)} :
              /\ resp' = [run |-> out.h, err |-> out.err, code |-> out.code,
                           fault |-> Struck(out.h, fault)]
              /\ store' = out.st
              /\ generation' = out.gen
    /\ pc' = "served"
    /\ UNCHANGED <<p, req, p2, store2, resp2, filename, hide, hpc, hidden, jcall, parser,
                   pool, pager>>

Finish ==
    /\ pc = "served"
    /\ pc' = "idle"
    /\ req' = NoRequest
    /\ resp' = NoResponse
    /\ UNCHANGED <<p, store, generation, p2, store2, resp2,
                   filename, hide, hpc, hidden, jcall, parser,
                   pool, pager>>

Next == Receive \/ Serve \/ Finish

Spec == Init /\ [][Next]_vars

----------------------------------------------------------------------------
(* fileHidden on its own: a key and a hide list are drawn, the function is *)
(* called once.                                                            *)

Alphabet == {sep, "a", "*"}

fooTxt == <<"f", "o", "o", ".", "t", "x", "t">>
underscoreStar == <<"_", "*">>
slashDraft == <<"/", "_", "d", "r", "a", "f", "t">>
slashFooTxt == <<"/", "f", "o", "o", ".", "t", "x", "t">>
slashFoobar == <<"/", "f", "o", "o", "b", "a", "r">>

\* the keys and the hide list of the test "hide files", and a '?' pattern
ExampleKeys == {slashDraft, slashFooTxt, slashFoobar, <<"_", "d">>}
ExampleHides == {<<fooTxt, underscoreStar>>, << <<"/", "?", "o", "*">> >>}

\* hide lists of two short patterns, whatever MaxHide
PairHides == {<<x, y>> : x, y \in {<<"a">>, <<sep, "a">>, <<"*">>}}

HiddenInputs ==
    (SeqsUpTo(Alphabet, MaxKeyLen)
        \X (SeqsUpTo(SeqsUpTo(Alphabet, MaxPatLen), MaxHide) \cup PairHides))
    \cup (ExampleKeys \X ExampleHides)

GatewayIdle ==
    /\ p = IdleProxy
    /\ store = <<>>
    /\ generation = 1
    /\ pc = "off"
    /\ req = NoRequest
    /\ resp = NoResponse
    /\ TwinIdle

InitHidden ==
    /\ GatewayIdle
    /\ \E in \in HiddenInputs :
          /\ filename = in[1]
          /\ hide = in[2]
    /\ hpc = "call"
    /\ hidden = FALSE
    /\ OthersIdle

CallFileHidden ==
    /\ hpc = "call"
    /\ hidden' = fileHidden(filename, hide)
    /\ hpc' = "done"
    /\ UNCHANGED <<p, store, generation, pc, req, resp, p2, store2, resp2,
                   filename, hide, jcall, parser,
                   pool, pager>>

NextHidden == CallFileHidden

SpecHidden == InitHidden /\ [][NextHidden]_vars

----------------------------------------------------------------------------
(* C5: fileHidden(k, P) is true exactly when some pattern of P matches k   *)
(* by one of three rules: the pattern has no separator and equals a        *)
(* separator-delimited component of k; the pattern has a separator, is a   *)
(* literal prefix of k and the character after the prefix is a separator;  *)
(* the pattern glob-matches the whole of k.                                *)

\* pat is a maximal separator-free stretch of k
IsComponent(pat, k) ==
    /\ \A i \in 1..Len(pat) : pat[i] # sep
    /\ \E a \in 1..(Len(k) + 1) :
          LET b == a + Len(pat) - 1
          IN  /\ b <= Len(k)
              /\ \A i \in 1..Len(pat) : k[a + i - 1] = pat[i]
              /\ a = 1 \/ k[a - 1] = sep
              /\ b = Len(k) \/ k[b + 1] = sep

IsBoundedPrefix(pat, k) ==
    /\ \E i \in 1..Len(pat) : pat[i] = sep
    /\ Len(pat) < Len(k)
    /\ \A i \in 1..Len(pat) : k[i] = pat[i]
    /\ k[Len(pat) + 1] = sep

MatchesByARule(pat, k) ==
    IsComponent(pat, k) \/ IsBoundedPrefix(pat, k) \/ Match(pat, k)

\* C5
C5_HiddenIffSomeRule ==
    hpc = "done" =>
        (hidden <=> \E i \in 1..Len(hide) : MatchesByARule(hide[i], filename))

\* a call with two patterns where only the second hides the key, by prefix
C5_Witness ==
    /\ hpc = "done"
    /\ hidden
    /\ Len(hide) = 2
    /\ ~MatchesByARule(hide[1], filename)
    /\ IsBoundedPrefix(hide[2], filename)

(* C6: with the hide list <<"foo.txt", "_*">> the key /_draft is hidden,   *)
(* the key /foo.txt is hidden and the key /foobar is not hidden.           *)
C6_HideFilesExample ==
    (hpc = "done" /\ hide = <<fooTxt, underscoreStar>>) =>
        /\ filename = slashDraft => hidden
        /\ filename = slashFooTxt => hidden
        /\ filename = slashFoobar => ~hidden

----------------------------------------------------------------------------
(* Claims about one request served by ServeHTTP. *)

Served == pc = "served"

ResolvedKey == joinPath(p.Root, req.path)

RequestHidden == fileHidden(ResolvedKey, p.Hide)

DirectoryKey == HasSuffix(ResolvedKey, <<sep>>)

(* C1: a PUT handled while EnablePut is false performs no store operation  *)
(* and ends with a not-allowed status (405 or 403), whatever the key.      *)
C1_PutDisabledNotAllowed ==
    (Served /\ req.method = "PUT" /\ ~p.EnablePut) =>
        /\ resp.run.ops = <<>>
        /\ resp.run.status \in {StatusMethodNotAllowed, StatusForbidden}

(* C2: a DELETE whose resolved key ends in a separator, whatever           *)
(* EnableDelete is, and a DELETE handled while EnableDelete is false, ends *)
(* with status 405 and performs no operation on the store.                 *)
C2_DeleteRejected ==
    (Served /\ req.method = "DELETE" /\ (DirectoryKey \/ ~p.EnableDelete)) =>
        /\ resp.run.ops = <<>>
        /\ resp.run.wrote = <<StatusMethodNotAllowed>>
        /\ resp.run.status = StatusMethodNotAllowed
        /\ resp.err = CaddyErr(StatusMethodNotAllowed)

\* a DELETE of a directory key rejected although deletes are enabled
C2_Witness ==
    /\ Served
    /\ req.method = "DELETE"
    /\ DirectoryKey
    /\ p.EnableDelete
    /\ resp.run.status = StatusMethodNotAllowed

(* C3: the visibility check precedes the method switch: a GET, PUT or      *)
(* DELETE whose resolved key is hidden fails with 404 (which the error     *)
(* path may hand to the next handler) and makes no write, delete or list   *)
(* and no call on the hidden key.                                          *)
C3_HiddenBeforeDispatch ==
    (Served /\ req.method \in {"GET", "PUT", "DELETE"} /\ RequestHidden) =>
        /\ resp.code = StatusNotFound
        /\ \A i \in 1..Len(resp.run.ops) :
              /\ resp.run.ops[i].op \notin {"Write", "Close", "Delete", "List"}
              /\ resp.run.ops[i].key # ResolvedKey

----------------------------------------------------------------------------
(* Index resolution: C7. *)

Candidate(i) == PathJoin(ResolvedKey, p.IndexNames[i])

Candidates == {Candidate(i) : i \in 1..Len(p.IndexNames)}

\* the first candidate from i on whose reader and attributes are obtained
\* when the calls are made one after the other, the next being call n
RECURSIVE FirstFetchable(_, _)
FirstFetchable(i, n) ==
    IF i > Len(p.IndexNames)
    THEN 0
    ELSE LET present  == Exists(store, Candidate(i))
             readerOK == present /\ resp.fault.at # n
             attrsOK  == present /\ resp.fault.at # n + 1
         IN  IF readerOK /\ attrsOK
             THEN i
             ELSE FirstFetchable(i + 1, IF readerOK THEN n + 2 ELSE n + 1)

IsProbe(call) == call.op = "NewReader" /\ call.key \in Candidates

Probes == SelectSeq(resp.run.ops, IsProbe)

IsBodyRead(call) == call.op = "Read"

BodyReads == SelectSeq(resp.run.ops, IsBodyRead)

(* C7: on a GET of a directory key the index candidates are probed in the  *)
(* configured order, one at a time; the document served is the first       *)
(* candidate whose fetch (reader and attributes) succeeds, no candidate    *)
(* after it is probed, and a candidate before it that failed, with         *)
(* not-exist or any other error, does not fail the request.  With          *)
(* <<index.html, index.txt>> and only index.txt in the bucket, index.txt   *)
(* is served.                                                              *)
C7_IndexFirstSuccessWins ==
    (Served /\ req.method = "GET" /\ DirectoryKey /\ ~RequestHidden) =>
        LET e    == FirstFetchable(1, 1)
            last == IF e = 0 THEN Len(p.IndexNames) ELSE e
        IN  /\ Len(Probes) = last
            /\ \A i \in 1..last : Probes[i].key = Candidate(i)
            /\ e # 0 =>
                  /\ BodyReads # <<>>
                  /\ BodyReads[1].key = Candidate(e)
                  /\ BodyReads[1].err = "nil" =>
                        /\ resp.err = NilErr
                        /\ resp.run.status = StatusOK
                        /\ resp.run.body = <<[key |-> Candidate(e), whole |-> TRUE]>>
            /\ e = 0 => \A i \in 1..Len(BodyReads) : BodyReads[i].key \notin Candidates
            /\ (/\ p.IndexNames = <<indexHtml, indexTxt>>
                /\ Exists(store, Candidate(2))
                /\ ~Exists(store, Candidate(1))
                /\ resp.fault = NoFault) =>
                    resp.run.body = <<[key |-> Candidate(2), whole |-> TRUE]>>

\* the first candidate failed with another error than not-exist and the
\* second one was served
C7_Witness ==
    /\ Served
    /\ req.method = "GET"
    /\ DirectoryKey
    /\ ~RequestHidden
    /\ Len(Probes) = 2
    /\ Probes[1].err \in {"other", "precondition"}
    /\ resp.err = NilErr
    /\ resp.run.body = <<[key |-> Candidate(2), whole |-> TRUE]>>

----------------------------------------------------------------------------
(* The error path: C8, C9, C10. *)

BypassStatuses ==
    {StatusNotModified, StatusPreconditionFailed,
     StatusRequestedRangeNotSatisfiable}

\* the override the configuration names for a status, <<>> when none
OverrideTarget(s) ==
    IF s \in DOMAIN p.ErrorPages THEN p.ErrorPages[s] ELSE p.DefaultErrorPage

CasePairs ==
    {<<"P", "p">>, <<"A", "a">>, <<"S", "s">>, <<"T", "t">>, <<"H", "h">>,
     <<"R", "r">>, <<"O", "o">>, <<"U", "u">>, <<"G", "g">>}

\* t is pass_through in some letter case
IsPassThrough(t) ==
    /\ Len(t) = Len(pass_through)
    /\ \A i \in 1..Len(t) :
          t[i] = pass_through[i] \/ <<t[i], pass_through[i]>> \in CasePairs

\* a GET that failed with a status outside the bypass set
FailingGet ==
    /\ Served
    /\ req.method = "GET"
    /\ resp.code \notin BypassStatuses \cup {0}

\* every call made on the key returned nil
CallsSucceeded(key) ==
    \A i \in 1..Len(resp.run.ops) :
        resp.run.ops[i].key = key => resp.run.ops[i].err = "nil"

(* C8: for a failing GET with status s outside {304, 412, 416} the         *)
(* override is ErrorPages[s] when present, else DefaultErrorPage, else     *)
(* none; when it is a store key (fetched without error) the response has   *)
(* status s and the content of that key as its body, and when there is     *)
(* none the response has status s and no body.                             *)
C8_ErrorPageOverride ==
    (FailingGet /\ ~IsPassThrough(OverrideTarget(resp.code))) =>
        LET target == OverrideTarget(resp.code)
        IN  /\ resp.run.status = resp.code
            /\ (target # <<>> /\ Exists(store, target) /\ CallsSucceeded(target)) =>
                  resp.run.body = <<[key |-> target, whole |-> TRUE]>>
            /\ target = <<>> => resp.run.body = <<>>

(* C9: for a failing GET whose override is pass_through in any letter case *)
(* the next handler is invoked exactly once and its result returned; the   *)
(* gateway writes no status and no body and fetches no error document.     *)
C9_PassThrough ==
    (FailingGet /\ IsPassThrough(OverrideTarget(resp.code))) =>
        /\ resp.run.next = 1
        /\ resp.err = NextResult
        /\ resp.run.wrote = <<>>
        /\ resp.run.status = 0
        /\ resp.run.body = <<>>
        /\ \A i \in 1..Len(resp.run.ops) :
              resp.run.ops[i].key \notin {notFoundPage, defaultPage}

(* C10: a GET that the store rejects with a precondition failure ends with *)
(* status 412 written as it is: no other status, no error document, no    *)
(* pass-through, whatever ErrorPages and DefaultErrorPage hold.            *)
C10_PreconditionFailedAsIs ==
    (/\ Served
     /\ req.method = "GET"
     /\ ~DirectoryKey
     /\ \E i \in 1..Len(resp.run.ops) :
           /\ resp.run.ops[i].key = ResolvedKey
           /\ resp.run.ops[i].op \in {"NewReader", "Attrs"}
           /\ resp.run.ops[i].err = "precondition") =>
        /\ resp.err = CaddyErr(StatusPreconditionFailed)
        /\ resp.run.wrote = <<StatusPreconditionFailed>>
        /\ resp.run.status = StatusPreconditionFailed
        /\ resp.run.body = <<>>
        /\ resp.run.next = 0

----------------------------------------------------------------------------
(* Two handlers side by side: the same GET is served by p over store and   *)
(* by p2 over store2.  p2 is p, or p without its hide list; the two        *)
(* buckets hold any objects under the request paths and agree on the       *)
(* error documents.  No store call fails otherwise.                        *)

TwinKeys(root) ==
    {joinPath(root, fileUrl),
     PathJoin(joinPath(root, dirUrl), indexHtml),
     PathJoin(joinPath(root, dirUrl), indexTxt)}

TwinStores(root) ==
    {[k \in objs \cup docs |-> 1] :
        objs \in SUBSET TwinKeys(root),
        docs \in {{}, {notFoundPage, defaultPage}}}

InitTwin ==
    /\ p \in {c \in Configs : c.Hide # <<>>}
    /\ p2 \in {p, [p EXCEPT !.Hide = <<>>]}
    /\ store \in TwinStores(p.Root)
    /\ store2 \in {s \in TwinStores(p.Root) :
                      Exists(s, notFoundPage) = Exists(store, notFoundPage)}
    /\ generation = 1
    /\ pc = "idle"
    /\ req = NoRequest
    /\ resp = NoResponse
    /\ resp2 = NoResponse
    /\ HiddenIdle
    /\ OthersIdle

TwinReceive ==
    /\ pc = "idle"
    /\ \E path \in Paths : req' = [method |-> "GET", path |-> path]
    /\ pc' = "pending"
    /\ UNCHANGED <<p, store, generation, resp, p2, store2, resp2,
                   filename, hide, hpc, hidden, jcall, parser,
                   pool, pager>>

TwinServe ==
    /\ pc = "pending"
    /\ \E out \in {ServeHTTP(p, store, generation, req, NoFault, NextResult)} :
          resp' = [run |-> out.h, err |-> out.err, code |-> out.code,
                   fault |-> NoFault]
    /\ \E out \in {ServeHTTP(p2, store2, generation, req, NoFault, NextResult)} :
          resp2' = [run |-> out.h, err |-> out.err, code |-> out.code,
                    fault |-> NoFault]
    /\ pc' = "served"
    /\ UNCHANGED <<p, store, generation, req, p2, store2,
                   filename, hide, hpc, hidden, jcall, parser,
                   pool, pager>>

TwinFinish ==
    /\ pc = "served"
    /\ pc' = "idle"
    /\ req' = NoRequest
    /\ resp' = NoResponse
    /\ resp2' = NoResponse
    /\ UNCHANGED <<p, store, generation, p2, store2,
                   filename, hide, hpc, hidden, jcall, parser,
                   pool, pager>>

NextTwin == TwinReceive \/ TwinServe \/ TwinFinish

SpecTwin == InitTwin /\ [][NextTwin]_vars

\* what the client and the caller see of a response
Observable(r) ==
    [status |-> r.run.status, body |-> r.run.body, etag |-> r.run.etag,
     next |-> r.run.next, err |-> r.err]

\* no object of the bucket is the key or lies under it
EmptyUnder(st, key) == \A k \in DOMAIN st : ~HasPrefix(k, key)

\* the hidden GET answers the same whatever the two buckets hold
HiddenWhateverExists ==
    (Served /\ RequestHidden /\ p2 = p) => Observable(resp) = Observable(resp2)

(* C4: the GET response for a hidden key is the same whether or not        *)
(* objects exist under it, and is the same as the response for that key    *)
(* when it is not hidden and nothing exists in the store under it, for     *)
(* file keys and directory keys alike.                                     *)
C4_HiddenLikeNotFound ==
    /\ HiddenWhateverExists
    /\ (/\ Served
        /\ RequestHidden
        /\ ~fileHidden(ResolvedKey, p2.Hide)
        /\ EmptyUnder(store2, ResolvedKey)) =>
            Observable(resp) = Observable(resp2)

(* C4 as amended: the GET response for a hidden key is the same whether    *)
(* or not objects exist under it; for a file key it is also the response   *)
(* for that key when it is not hidden and nothing exists under it.         *)
C4_HiddenFileLikeNotFound ==
    /\ HiddenWhateverExists
    /\ (/\ Served
        /\ RequestHidden
        /\ ~DirectoryKey
        /\ ~fileHidden(ResolvedKey, p2.Hide)
        /\ EmptyUnder(store2, ResolvedKey)) =>
            Observable(resp) = Observable(resp2)

\* a hidden file that exists, beside the same key not hidden and absent
C4_Witness ==
    /\ Served
    /\ RequestHidden
    /\ ~DirectoryKey
    /\ ~fileHidden(ResolvedKey, p2.Hide)
    /\ Exists(store, ResolvedKey)
    /\ EmptyUnder(store2, ResolvedKey)
    /\ resp.code = StatusNotFound
    /\ resp2.code = StatusNotFound

----------------------------------------------------------------------------
(* Conditional GET.  getGcsObject reads If-Match and opens the reader      *)
(* under a generation condition; no handler calls it.                      *)

quote == "\""

DigitValue ==
    ("0" :> 0) @@ ("1" :> 1) @@ ("2" :> 2) @@ ("3" :> 3) @@ ("4" :> 4) @@
    ("5" :> 5) @@ ("6" :> 6) @@ ("7" :> 7) @@ ("8" :> 8) @@ ("9" :> 9)

\* the value of a run of decimal digits
RECURSIVE DigitsValue(_)
DigitsValue(s) ==
    IF s = <<>>
    THEN 0
    ELSE 10 * DigitsValue(SubSeq(s, 1, Len(s) - 1)) + DigitValue[Last(s)]

\* strconv.ParseInt(s, 10, 64) and strconv.Atoi(s) within the machine word:
\* an optional sign, then one decimal digit or more
ParseInt(s) ==
    LET signed == s # <<>> /\ s[1] \in {"+", "-"}
        parsed(digits) ==
            IF digits = <<>> \/ \E i \in 1..Len(digits) :
                                    digits[i] \notin DOMAIN DigitValue
            THEN [ok |-> FALSE, val |-> 0]
            ELSE [ok  |-> TRUE,
                  val |-> IF signed /\ s[1] = "-"
                          THEN 0 - DigitsValue(digits)
                          ELSE DigitsValue(digits)]
    IN  parsed(IF signed THEN Tail(s) ELSE s)

\* the condition getGcsObject puts on the object handle for an If-Match
\* value, 0 for none: the value without its first and last character, when
\* that is a number
IfMatchCondition(ifMatch) ==
    LET cond(gen) == IF gen.ok THEN gen.val ELSE 0
    IN  IF Len(ifMatch) > 2
        THEN cond(ParseInt(SubSeq(ifMatch, 2, Len(ifMatch) - 1)))
        ELSE 0

\* getGcsObject: NewReader on the handle under the condition, which the
\* store rejects when the object is of another generation
getGcsObject(h, key, ifMatch, st, fault) ==
    LET opened(cond, c) ==
            [h   |-> [h EXCEPT !.ops = Append(@, [op   |-> "NewReader",
                                                  key  |-> key,
                                                  cond |-> cond,
                                                  err  |-> c])],
             err |-> c]
        under(cond, c) ==
            opened(cond,
                   IF c = "nil" /\ cond # 0 /\ Generation(st, key) # cond
                   THEN "precondition"
                   ELSE c)
    IN  under(IfMatchCondition(ifMatch),
              Outcome(h, "NewReader", key, st, fault))

\* If-Match values: the quoted generations 1 and 2, a bare number, a quoted
\* word, a pair of quotes
IfMatchChoices ==
    {<<quote, "1", quote>>, <<quote, "2", quote>>, <<"1">>,
     <<quote, "x", quote>>, <<quote, quote>>}

\* buckets for the conditional GET: the file object absent or of
\* generation 1 or 2
ConditionalStores(root) ==
    {<<>>, joinPath(root, fileUrl) :> 1, joinPath(root, fileUrl) :> 2}

InitConditional ==
    /\ p \in Configs
    /\ store \in ConditionalStores(p.Root)
    /\ generation = MaxGen
    /\ pc = "idle"
    /\ req = NoRequest
    /\ resp = NoResponse
    /\ p2 = p
    /\ store2 = store
    /\ resp2 = NoResponse
    /\ HiddenIdle
    /\ OthersIdle

\* a GET arrives with an If-Match header
ReceiveConditional ==
    /\ pc = "idle"
    /\ \E path \in Paths, im \in IfMatchChoices :
          req' = [method |-> "GET", path |-> path, ifMatch |-> im]
    /\ pc' = "pending"
    /\ UNCHANGED <<p, store, generation, resp, p2, store2, resp2,
                   filename, hide, hpc, hidden, jcall, parser,
                   pool, pager>>

\* it is served, and beside it the same request without the header
ServeConditional ==
    /\ pc = "pending"
    /\ \E out \in {ServeHTTP(p, store, generation, req, NoFault, NextResult)} :
          resp' = [run |-> out.h, err |-> out.err, code |-> out.code,
                   fault |-> NoFault]
    /\ \E out \in {ServeHTTP(p2, store2, generation,
                             [method |-> req.method, path |-> req.path],
                             NoFault, NextResult)} :
          resp2' = [run |-> out.h, err |-> out.err, code |-> out.code,
                    fault |-> NoFault]
    /\ pc' = "served"
    /\ UNCHANGED <<p, store, generation, req, p2, store2,
                   filename, hide, hpc, hidden, jcall, parser,
                   pool, pager>>

FinishConditional ==
    /\ pc = "served"
    /\ pc' = "idle"
    /\ req' = NoRequest
    /\ resp' = NoResponse
    /\ resp2' = NoResponse
    /\ UNCHANGED <<p, store, generation, p2, store2,
                   filename, hide, hpc, hidden, jcall, parser,
                   pool, pager>>

NextConditional == ReceiveConditional \/ ServeConditional \/ FinishConditional

SpecConditional == InitConditional /\ [][NextConditional]_vars

\* v is a quote, decimal digits, a quote
IsQuotedDecimal(v) ==
    /\ Len(v) >= 3
    /\ v[1] = quote
    /\ v[Len(v)] = quote
    /\ \A i \in 2..(Len(v) - 1) : v[i] \in DOMAIN DigitValue

QuotedValue(v) == DigitsValue(SubSeq(v, 2, Len(v) - 1))

(* C11: a GET whose If-Match is a quoted decimal generation is fetched     *)
(* from the store under that generation condition and succeeds when the    *)
(* object is of that generation; a malformed If-Match causes no error: the *)
(* request ends as the same request without the header does.               *)
C11_ConditionalGetHonored ==
    (Served /\ "ifMatch" \in DOMAIN req /\ ~DirectoryKey /\ ~RequestHidden) =>
        /\ IsQuotedDecimal(req.ifMatch) =>
              /\ \E i \in 1..Len(resp.run.ops) :
                    /\ resp.run.ops[i].op = "NewReader"
                    /\ resp.run.ops[i].key = ResolvedKey
                    /\ resp.run.ops[i].cond = QuotedValue(req.ifMatch)
              /\ Generation(store, ResolvedKey) = QuotedValue(req.ifMatch) =>
                    /\ resp.err = NilErr
                    /\ resp.run.status = StatusOK
        /\ ~IsQuotedDecimal(req.ifMatch) =>
              Observable(resp) = Observable(resp2)

----------------------------------------------------------------------------
(* Other methods, failing writes and deletes, failing error documents,     *)
(* directories without index: C12, C15, C16, C17.                          *)

\* the calls of the run made on an error document of the configuration
OnErrorDocument(call) == call.key \in {notFoundPage, defaultPage}

(* C12: a request whose method is none of GET, PUT, DELETE ends with       *)
(* status 405, performs no store operation and is never handed to the next *)
(* handler.                                                                *)
C12_OtherMethodNotAllowed ==
    (Served /\ req.method \notin {"GET", "PUT", "DELETE"}) =>
        /\ resp.run.status = StatusMethodNotAllowed
        /\ resp.run.wrote = <<StatusMethodNotAllowed>>
        /\ resp.err = CaddyErr(StatusMethodNotAllowed)
        /\ resp.run.ops = <<>>
        /\ resp.run.next = 0

\* a POST answered 405 under a configuration whose default is pass_through
C12_Witness ==
    /\ Served
    /\ req.method = "POST"
    /\ IsPassThrough(p.DefaultErrorPage)
    /\ resp.run.status = StatusMethodNotAllowed

(* C15: a failing request whose method is not GET has the status of its    *)
(* error written and the error returned; no error document is fetched and  *)
(* the next handler is not called, whatever ErrorPages and                 *)
(* DefaultErrorPage name for that status.                                  *)
C15_NonGetFailsDirectly ==
    (Served /\ req.method # "GET" /\ resp.code # 0) =>
        /\ resp.run.wrote = <<resp.code>>
        /\ resp.run.status = resp.code
        /\ resp.err = CaddyErr(resp.code)
        /\ resp.run.body = <<>>
        /\ resp.run.next = 0
        /\ SelectSeq(resp.run.ops, OnErrorDocument) = <<>>

\* a write or delete that failed in the store, with an override configured
\* for its status
C15_Witness ==
    /\ Served
    /\ req.method \in {"PUT", "DELETE"}
    /\ resp.run.ops # <<>>
    /\ resp.code # 0
    /\ OverrideTarget(resp.code) # <<>>
    /\ resp.run.status = resp.code

\* the request served under the same configuration without error pages
WithoutErrorPages ==
    ServeHTTP([p EXCEPT !.ErrorPages = NoPages, !.DefaultErrorPage = <<>>],
              store, generation, req, resp.fault, NextResult)

\* the fetch of the error document of a failing GET failed
ErrorDocumentFailed ==
    /\ FailingGet
    /\ OverrideTarget(resp.code) # <<>>
    /\ ~IsPassThrough(OverrideTarget(resp.code))
    /\ ~CallsSucceeded(OverrideTarget(resp.code))

(* C16: when the fetch of the error document fails during a failing GET,   *)
(* the status already written stays, no second status is written and the   *)
(* error returned is the handler's error: status, statuses written and     *)
(* error are those of the same request served without error pages.         *)
C16_ErrorDocumentFailureSwallowed ==
    ErrorDocumentFailed =>
        /\ Len(resp.run.wrote) = 1
        /\ resp.err = CaddyErr(resp.code)
        /\ resp.run.wrote = WithoutErrorPages.h.wrote
        /\ resp.run.status = WithoutErrorPages.h.status
        /\ resp.err = WithoutErrorPages.err

\* the error document of a 404 could not be read, for another reason than
\* its absence
C16_Witness ==
    /\ ErrorDocumentFailed
    /\ resp.code = StatusNotFound
    /\ resp.run.status = StatusNotFound
    /\ \E i \in 1..Len(resp.run.ops) :
          /\ OnErrorDocument(resp.run.ops[i])
          /\ resp.run.ops[i].err = "other"

IsList(call) == call.op = "List"

(* C17: a GET on a directory key that is not hidden and for which no index *)
(* candidate resolves is answered, with browsing enabled, by a successful  *)
(* response whose body is the listing page of the prefix listed from the   *)
(* store, and, with browsing disabled, by 403 without a listing call.      *)
C17_DirectoryWithoutIndex ==
    (/\ Served
     /\ req.method = "GET"
     /\ DirectoryKey
     /\ ~RequestHidden
     /\ FirstFetchable(1, 1) = 0) =>
        /\ p.EnableBrowse =>
              /\ SelectSeq(resp.run.ops, IsList) # <<>>
              /\ \A i \in 1..Len(resp.run.ops) :
                    IsList(resp.run.ops[i]) =>
                        resp.run.ops[i].key = ResolvedKey
              /\ resp.fault = NoFault =>
                    /\ resp.err = NilErr
                    /\ resp.run.status = StatusOK
                    /\ resp.run.body # <<>>
        /\ ~p.EnableBrowse =>
              /\ resp.code = StatusForbidden
              /\ SelectSeq(resp.run.ops, IsList) = <<>>

----------------------------------------------------------------------------
(* joinPath on its own: a root and a request path are drawn, joinPath is   *)
(* called on them and then on its own result with the same root.           *)

PathAlphabet == {sep, dot, "a"}

JoinInputs ==
    SeqsUpTo(PathAlphabet, MaxRootLen) \X SeqsUpTo(PathAlphabet, MaxPathLen)

\* the slice expression s[low:] of Go panics when low is out of range
SliceOutOfRange(s, low) == low < 0 \/ low > Len(s)

\* joinPath begins with uriPath[len(uriPath)-1:]
joinPathPanics(uriPath) == SliceOutOfRange(uriPath, Len(uriPath) - 1)

InitJoin ==
    /\ GatewayIdle
    /\ HiddenIdle
    /\ parser = NoParse
    /\ pool = NoPool
    /\ pager = NoPager
    /\ \E in \in JoinInputs :
          jcall = [pc |-> "call", root |-> in[1], uriPath |-> in[2],
                   key |-> <<>>, again |-> <<>>]

CallJoinPath ==
    /\ jcall.pc = "call"
    /\ jcall' = IF joinPathPanics(jcall.uriPath)
                THEN [jcall EXCEPT !.pc = "panic"]
                ELSE [jcall EXCEPT !.pc = "joined",
                                   !.key = joinPath(jcall.root, jcall.uriPath)]
    /\ UNCHANGED <<p, store, generation, pc, req, resp, p2, store2, resp2,
                   filename, hide, hpc, hidden, parser,
                   pool, pager>>

RejoinPath ==
    /\ jcall.pc = "joined"
    /\ jcall' = IF joinPathPanics(jcall.key)
                THEN [jcall EXCEPT !.pc = "panic"]
                ELSE [jcall EXCEPT !.pc = "rejoined",
                                   !.again = joinPath(jcall.root, jcall.key)]
    /\ UNCHANGED <<p, store, generation, pc, req, resp, p2, store2, resp2,
                   filename, hide, hpc, hidden, parser,
                   pool, pager>>

NextJoin == CallJoinPath \/ RejoinPath

SpecJoin == InitJoin /\ [][NextJoin]_vars

(* C14: for every root and every non-empty request path, joinPath of the   *)
(* root and the resolved key ends with a separator exactly when the        *)
(* resolved key does.                                                      *)
C14_RejoinKeepsDirectoryFlag ==
    jcall.pc = "rejoined" =>
        (HasSuffix(jcall.again, <<sep>>) <=> HasSuffix(jcall.key, <<sep>>))

\* a directory key under a non-empty root, joined again
C14_Witness ==
    /\ jcall.pc = "rejoined"
    /\ jcall.root # <<>>
    /\ jcall.key # <<sep>>
    /\ HasSuffix(jcall.key, <<sep>>)
    /\ HasSuffix(jcall.again, <<sep>>)

(* C18: joinPath is total: for every root and every request path, the      *)
(* empty path included, it returns a key and does not panic.               *)
C18_JoinPathTotal == jcall.pc # "panic"

----------------------------------------------------------------------------
(* parseCaddyfileWithDispenser (caddyfile.go).  The block is a sequence of *)
(* lines, a line a sequence of tokens; the dispenser's cursor is on token  *)
(* j of line i.  NextBlock loads the next token wherever it is, NextArg    *)
(* the next token of the same line.                                        *)

\* the zero value of the map and of make(map[int]string)
NilMap == [made |-> FALSE, entries |-> <<>>]
MadeMap == [made |-> TRUE, entries |-> <<>>]

\* var b GcsProxy
ZeroProxy ==
    [CredentialsFile |-> "", ProjectID |-> "", Root |-> "", Hide |-> <<>>,
     Bucket |-> "", IndexNames |-> <<>>, EnablePut |-> FALSE,
     EnableDelete |-> FALSE, EnableBrowse |-> FALSE, BrowseTemplate |-> "",
     ErrorPages |-> NilMap, DefaultErrorPage |-> ""]

ArgErr == "Wrong argument count or unexpected line ending"
NotAStatus == "is not a valid HTTP status code"
NotAnOption == "not a valid gcsproxy option"
BucketNotSet == "bucket must be set and not empty"

\* a placeholder no replacer value stands for
unsetPlaceholder == "{unset}"

\* replacer.ReplaceAll(s, ""): placeholders give way to their value, which
\* is empty for the one of the model
ReplaceAll(tok) == IF tok = unsetPlaceholder THEN "" ELSE tok

\* strconv.Atoi on the characters of the tokens that stand where a status
\* is read
Atoi(tok) ==
    LET chars ==
            ("404" :> <<"4", "0", "4">>) @@ ("403" :> <<"4", "0", "3">>) @@
            ("999" :> <<"9", "9", "9">>) @@ ("-1" :> <<"-", "1">>) @@
            ("invalid" :> <<"i", "n", "v", "a", "l", "i", "d">>)
    IN  ParseInt(chars[tok])

\* what one case of the switch does: the proxy, the error returned if any,
\* whether the loop is left, the arguments consumed
Done(b, used) == [b |-> b, err |-> "", brk |-> FALSE, used |-> used]
Failed(b, err) == [b |-> b, err |-> err, brk |-> FALSE, used |-> 0]

\* mutant: the two-argument form sets the default page as well
ErrorsDirectiveAlsoDefault(b, args) ==
    LET made(m) ==
            IF Len(args) = 1
            THEN Done([b EXCEPT !.ErrorPages = m,
                                !.DefaultErrorPage = args[1]], 1)
            ELSE IF Len(args) = 2
            THEN LET converted(n) ==
                         IF ~n.ok
                         THEN Failed(b, NotAStatus)
                         ELSE Done([b EXCEPT
                                      !.ErrorPages =
                                          [m EXCEPT !.entries =
                                              (n.val :> args[2]) @@ @],
                                      !.DefaultErrorPage = args[2]], 2)
                 IN  converted(Atoi(args[1]))
            ELSE Failed(b, ArgErr)
    IN  made(IF b.ErrorPages.made THEN b.ErrorPages ELSE MadeMap)

\* case "error_page", "errors"
ErrorsDirective(b, args) ==
    LET made(m) ==
            IF Len(args) = 1
            THEN Done([b EXCEPT !.ErrorPages = m,
                                !.DefaultErrorPage = args[1]], 1)
            ELSE IF Len(args) = 2
            THEN LET converted(n) ==
                         IF ~n.ok
                         THEN Failed(b, NotAStatus)
                         ELSE Done([b EXCEPT
                                      !.ErrorPages =
                                          [m EXCEPT !.entries =
                                              (n.val :> args[2]) @@ @]], 2)
                 IN  converted(Atoi(args[1]))
            ELSE Failed(b, ArgErr)
    IN  made(IF b.ErrorPages.made THEN b.ErrorPages ELSE MadeMap)

\* the body of the loop for the directive val, rest being what follows it
\* on its line.  h.AllArgs(&x) wants one argument exactly.
Directive(b, val, rest) ==
    LET bucketSet(bb) == [Done(bb, 1) EXCEPT !.brk = bb.Bucket = ""]
    IN  IF val = "credentials_file"
        THEN IF Len(rest) # 1
             THEN Failed(b, ArgErr)
             ELSE Done([b EXCEPT !.CredentialsFile = ReplaceAll(rest[1])], 1)
        ELSE IF val = "project_id"
        THEN IF Len(rest) # 1
             THEN Failed(b, ArgErr)
             ELSE Done([b EXCEPT !.ProjectID = ReplaceAll(rest[1])], 1)
        ELSE IF val = "root"
        THEN IF Len(rest) # 1
             THEN Failed(b, ArgErr)
             ELSE Done([b EXCEPT !.Root = rest[1]], 1)
        ELSE IF val = "hide"
        THEN IF rest = <<>>
             THEN Failed(b, ArgErr)
             ELSE Done([b EXCEPT !.Hide = rest], Len(rest))
        ELSE IF val = "bucket"
        THEN IF Len(rest) # 1
             THEN Failed(b, ArgErr)
             ELSE bucketSet([b EXCEPT !.Bucket = ReplaceAll(rest[1])])
        ELSE IF val = "index"
        THEN IF rest = <<>>
             THEN Failed(b, ArgErr)
             ELSE Done([b EXCEPT !.IndexNames = rest], Len(rest))
        ELSE IF val = "enable_put"
        THEN Done([b EXCEPT !.EnablePut = TRUE], 0)
        ELSE IF val = "enable_delete"
        THEN Done([b EXCEPT !.EnableDelete = TRUE], 0)
        ELSE IF val = "browse"
        THEN IF Len(rest) > 1
             THEN Failed(b, ArgErr)
             ELSE Done([b EXCEPT !.EnableBrowse = TRUE,
                                 !.BrowseTemplate =
                                     IF Len(rest) = 1 THEN rest[1] ELSE @],
                       Len(rest))
        ELSE IF val \in {"error_page", "errors"}
        THEN ErrorsDirective(b, rest)
        ELSE Failed(b, NotAnOption)

\* the lines the blocks of the model are made of
LineChoices ==
    {<<"bucket", "mybucket">>, <<"bucket", "">>, <<"bucket">>,
     <<"bucket", unsetPlaceholder>>, <<"region", "foo">>,
     <<"root", "one">>, <<"root", "one", "two">>,
     <<"credentials_file", unsetPlaceholder>>, <<"project_id", "proj">>,
     <<"hide", "foo.txt", "_*">>, <<"index", "i.htm", "i.html">>,
     <<"enable_put">>, <<"enable_delete", "enable_put">>,
     <<"browse">>, <<"browse", "tpl">>,
     <<"errors", "default.html">>, <<"errors", "">>,
     <<"errors", "404", "404.html">>, <<"error_page", "403", "pass_through">>,
     <<"errors", "404", "">>, <<"errors", "999", "big.html">>,
     <<"errors", "-1", "neg.html">>, <<"errors", "invalid", "404.html">>,
     <<"errors", "403", "403.html", "more">>}

\* d.Next() inside the block: is there a token before the closing brace,
\* and where
HasNextToken(lines, i, j) ==
    (i >= 1 /\ j < Len(lines[i])) \/ i < Len(lines)

NextLine(lines, i, j) == IF i >= 1 /\ j < Len(lines[i]) THEN i ELSE i + 1

NextToken(lines, i, j) == IF i >= 1 /\ j < Len(lines[i]) THEN j + 1 ELSE 1

\* the tokens NextArg can still load: the rest of the line
RemainingArgs(lines, i, j) == SubSeq(lines[i], j + 1, Len(lines[i]))

InitParser ==
    /\ GatewayIdle
    /\ HiddenIdle
    /\ jcall = NoJoin
    /\ pool = NoPool
    /\ pager = NoPager
    /\ \E lines \in SeqsUpTo(LineChoices, MaxLines) :
          parser = [pc |-> "loop", lines |-> lines, i |-> 0, j |-> 0,
                    b |-> ZeroProxy, err |-> "", prox |-> "none"]

\* one turn of the loop: NextBlock loads a directive, the switch runs on it
ParseDirective ==
    /\ parser.pc = "loop"
    /\ HasNextToken(parser.lines, parser.i, parser.j)
    /\ \E i \in {NextLine(parser.lines, parser.i, parser.j)},
          j \in {NextToken(parser.lines, parser.i, parser.j)} :
          \E d \in {Directive(parser.b, parser.lines[i][j],
                              RemainingArgs(parser.lines, i, j))} :
              parser' =
                  IF d.err # ""
                  THEN [parser EXCEPT !.pc = "error", !.i = i, !.j = j,
                                      !.err = d.err, !.prox = "nil"]
                  ELSE [parser EXCEPT
                          !.pc = IF d.brk THEN "check" ELSE "loop",
                          !.i = i, !.j = j + d.used, !.b = d.b]
    /\ UNCHANGED <<p, store, generation, pc, req, resp, p2, store2, resp2,
                   filename, hide, hpc, hidden, jcall,
                   pool, pager>>

\* NextBlock meets the closing brace
BlockEnd ==
    /\ parser.pc = "loop"
    /\ ~HasNextToken(parser.lines, parser.i, parser.j)
    /\ parser' = [parser EXCEPT !.pc = "check"]
    /\ UNCHANGED <<p, store, generation, pc, req, resp, p2, store2, resp2,
                   filename, hide, hpc, hidden, jcall,
                   pool, pager>>

\* after the loop: the bucket must be set
CheckBucket ==
    /\ parser.pc = "check"
    /\ parser' = IF parser.b.Bucket = ""
                 THEN [parser EXCEPT !.pc = "error", !.err = BucketNotSet,
                                     !.prox = "nil"]
                 ELSE [parser EXCEPT !.pc = "ok", !.prox = "b"]
    /\ UNCHANGED <<p, store, generation, pc, req, resp, p2, store2, resp2,
                   filename, hide, hpc, hidden, jcall,
                   pool, pager>>

NextParser == ParseDirective \/ BlockEnd \/ CheckBucket

SpecParser == InitParser /\ [][NextParser]_vars

\* the parse returned
Parsed == parser.pc \in {"ok", "error"}

\* the directives of a block that take the name given
LinesOf(lines, names) == {i \in 1..Len(lines) : lines[i][1] \in names}

\* the block has no bucket option, or one whose value is the empty string
BucketMissingOrEmpty(lines) ==
    \/ LinesOf(lines, {"bucket"}) = {}
    \/ \E i \in LinesOf(lines, {"bucket"}) : lines[i] = <<"bucket", "">>

(* C13: parsing a block in which the bucket option is missing or is the    *)
(* empty string fails with 'bucket must be set and not empty' and returns  *)
(* no proxy, also when the block holds other options instead of bucket.    *)
C13_BucketRequired ==
    (Parsed /\ BucketMissingOrEmpty(parser.lines))
        => /\ parser.pc = "error"
           /\ parser.err = BucketNotSet
           /\ parser.prox = "nil"

\* the errors/error_page directives of one argument
OneArgErrors(lines) ==
    {i \in LinesOf(lines, {"errors", "error_page"}) : Len(lines[i]) = 2}

(* C19: after a successful parse every key of ErrorPages is a status in    *)
(* 100..599, every value is a non-empty string, and so is DefaultErrorPage *)
(* when an errors directive set it.                                        *)
C19_ErrorPagesWellFormed ==
    parser.pc = "ok"
        => /\ \A k \in DOMAIN parser.b.ErrorPages.entries :
                 /\ k \in 100..599
                 /\ parser.b.ErrorPages.entries[k] # ""
           /\ OneArgErrors(parser.lines) # {}
                 => parser.b.DefaultErrorPage # ""

\* what a line of directives specifies, applied to the proxy b; allocates
\* tells whether the one-argument errors form leaves an allocated map
Specified(b, line, allocates) ==
    LET args == Tail(line)
        tokens == {line[k] : k \in 1..Len(line)}
    IN  IF line[1] = "credentials_file"
        THEN [b EXCEPT !.CredentialsFile = ReplaceAll(args[1])]
        ELSE IF line[1] = "project_id"
        THEN [b EXCEPT !.ProjectID = ReplaceAll(args[1])]
        ELSE IF line[1] = "root"
        THEN [b EXCEPT !.Root = args[1]]
        ELSE IF line[1] = "bucket"
        THEN [b EXCEPT !.Bucket = ReplaceAll(args[1])]
        ELSE IF line[1] = "hide"
        THEN [b EXCEPT !.Hide = args]
        ELSE IF line[1] = "index"
        THEN [b EXCEPT !.IndexNames = args]
        ELSE IF line[1] \in {"enable_put", "enable_delete"}
        THEN [b EXCEPT !.EnablePut = @ \/ "enable_put" \in tokens,
                       !.EnableDelete = @ \/ "enable_delete" \in tokens]
        ELSE IF line[1] = "browse"
        THEN [b EXCEPT !.EnableBrowse = TRUE,
                       !.BrowseTemplate = IF args = <<>> THEN @ ELSE args[1]]
        ELSE IF Len(args) = 1
        THEN [b EXCEPT !.DefaultErrorPage = args[1],
                       !.ErrorPages.made = @ \/ allocates]
        ELSE [b EXCEPT !.ErrorPages.made = TRUE,
                       !.ErrorPages.entries =
                           (Atoi(args[1]).val :> args[2]) @@ @]

RECURSIVE SpecifiedBy(_, _, _)
SpecifiedBy(lines, n, allocates) ==
    IF n = 0
    THEN ZeroProxy
    ELSE Specified(SpecifiedBy(lines, n - 1, allocates), lines[n], allocates)

(* C20 as stated: the parsed proxy holds exactly what the directives       *)
(* specify: a two-argument errors directive sets the entry of its status   *)
(* only, the one-argument form sets only the default page, and every field *)
(* no directive names keeps its zero value (the status map stays nil).     *)
C20_OnlyWhatDirectivesSpecify ==
    parser.pc = "ok"
        => parser.b = SpecifiedBy(parser.lines, Len(parser.lines), FALSE)

(* C20 amended: the parsed proxy holds what the directives specify, except *)
(* that any errors directive, the one-argument form included, leaves the   *)
(* status map allocated: empty instead of nil when it has no entry.        *)
C20_SpecifiedUpToAllocation ==
    parser.pc = "ok"
        => parser.b = SpecifiedBy(parser.lines, Len(parser.lines), TRUE)

\* a parse in which the one-argument form alone was given: the default
\* page is set and the status map is allocated and empty
C20_Witness ==
    /\ parser.pc = "ok"
    /\ OneArgErrors(parser.lines) # {}
    /\ parser.b.DefaultErrorPage # ""
    /\ parser.b.ErrorPages = MadeMap

----------------------------------------------------------------------------
(* The response writer and the readers of one request: C23, C24, C25. *)

(* C23: within one request the status is written at most once and never    *)
(* after body bytes were sent, also when the body copy of a GET fails      *)
(* part-way.                                                               *)
C23_StatusOnceBeforeBody ==
    Served =>
        /\ Len(resp.run.wrote) <= 1
        /\ resp.run.late = 0

\* how many times key occurs in a sequence of keys
Occurrences(keys, key) == Cardinality({i \in 1..Len(keys) : keys[i] = key})

(* C24: every reader opened while a GET is handled (index candidates, the  *)
(* object, the error document) is closed exactly once by the time          *)
(* ServeHTTP returns.                                                      *)
C24_ReadersClosedOnce ==
    (Served /\ req.method = "GET") =>
        \A i \in 1..Len(resp.run.opened) :
            Occurrences(resp.run.closed, resp.run.opened[i]) =
                Occurrences(resp.run.opened, resp.run.opened[i])

(* C25: no response body is streamed from a key that the hide list hides,  *)
(* be it the index document of a directory or an error document.           *)
C25_NoBodyFromHiddenKey ==
    Served =>
        \A i \in 1..Len(resp.run.body) :
            ~fileHidden(resp.run.body[i].key, p.Hide)

----------------------------------------------------------------------------
(* bufPool and the serializers GenerateJson and GenerateHtml (browse       *)
(* code).  MaxCallers goroutines call them, each call step by step: Get,   *)
(* Reset, the encoding into the buffer, WriteTo and the deferred Put at    *)
(* the return.  A byte is the call it was produced for.                    *)

Callers == 1..MaxCallers

\* the bytes the page object of call n of goroutine g is serialized to
Serialized(g, n) == <<[g |-> g, n |-> n], [g |-> g, n |-> n]>>

\* mutant: Reset leaves the buffer as it is
ResetKeeps(b) == b

\* bytes.Buffer.Reset
Reset(b) == <<>>

\* the call holds a buffer: between Get and the deferred Put
Holds(c) == c.pc \in {"got", "reset", "encoded"}

InitPool ==
    /\ GatewayIdle
    /\ HiddenIdle
    /\ jcall = NoJoin
    /\ parser = NoParse
    /\ pager = NoPager
    /\ pool = [on      |-> TRUE,
               free    |-> {},      \* the buffers in bufPool
               content |-> <<>>,    \* what each buffer made holds
               calls   |-> [g \in Callers |->
                               [pc |-> "idle", kind |-> "none", buf |-> 0,
                                w |-> <<>>, n |-> 0, err |-> FALSE]]]

\* buf := bufPool.Get().(*bytes.Buffer): a buffer of the pool, or a new one
\* (Get may treat the pool as empty)
Get(g) ==
    /\ pool.on
    /\ pool.calls[g].pc \in {"idle", "returned"}
    /\ pool.calls[g].n < MaxRounds
    /\ \E kind \in {"json", "html"} :
          \/ \E b \in pool.free :
                pool' = [pool EXCEPT
                           !.free = @ \ {b},
                           !.calls[g] = [pc |-> "got", kind |-> kind,
                                         buf |-> b, w |-> <<>>,
                                         n |-> pool.calls[g].n + 1,
                                         err |-> FALSE]]
          \/ /\ Len(pool.content) < MaxBuffers
             /\ pool' = [pool EXCEPT
                           !.content = Append(@, <<>>),
                           !.calls[g] = [pc |-> "got", kind |-> kind,
                                         buf |-> Len(pool.content) + 1,
                                         w |-> <<>>,
                                         n |-> pool.calls[g].n + 1,
                                         err |-> FALSE]]
    /\ UNCHANGED <<p, store, generation, pc, req, resp, p2, store2, resp2,
                   filename, hide, hpc, hidden, jcall, parser, pager>>

\* buf.Reset(); defer bufPool.Put(buf)
ResetBuffer(g) ==
    /\ pool.on
    /\ pool.calls[g].pc = "got"
    /\ pool' = [pool EXCEPT
                  !.content[pool.calls[g].buf] = Reset(@),
                  !.calls[g].pc = "reset"]
    /\ UNCHANGED <<p, store, generation, pc, req, resp, p2, store2, resp2,
                   filename, hide, hpc, hidden, jcall, parser, pager>>

\* json.NewEncoder(buf).Encode(po) / template.Execute(buf, po): the page
\* object is written to the buffer; a template may fail part-way, and the
\* call returns the error, the deferred Put returning the buffer as it is
Encode(g) ==
    /\ pool.on
    /\ pool.calls[g].pc = "reset"
    /\ \/ pool' = [pool EXCEPT
                     !.content[pool.calls[g].buf] =
                         @ \o Serialized(g, pool.calls[g].n),
                     !.calls[g].pc = "encoded"]
       \/ /\ pool.calls[g].kind = "html"
          /\ \E k \in 0..(Len(Serialized(g, pool.calls[g].n)) - 1) :
                pool' = [pool EXCEPT
                           !.content[pool.calls[g].buf] =
                               @ \o SubSeq(Serialized(g, pool.calls[g].n),
                                            1, k),
                           !.free = @ \cup {pool.calls[g].buf},
                           !.calls[g].pc = "returned",
                           !.calls[g].err = TRUE]
    /\ UNCHANGED <<p, store, generation, pc, req, resp, p2, store2, resp2,
                   filename, hide, hpc, hidden, jcall, parser, pager>>

\* buf.WriteTo(w) and the return: the buffer is drained into the response
\* as far as the writes succeed, then the deferred Put returns it
WriteTo(g) ==
    /\ pool.on
    /\ pool.calls[g].pc = "encoded"
    /\ \E k \in 0..Len(pool.content[pool.calls[g].buf]) :
          pool' = [pool EXCEPT
                     !.calls[g].w =
                         @ \o SubSeq(pool.content[pool.calls[g].buf], 1, k),
                     !.content[pool.calls[g].buf] =
                         SubSeq(@, k + 1, Len(@)),
                     !.free = @ \cup {pool.calls[g].buf},
                     !.calls[g].pc = "returned",
                     !.calls[g].err = k < Len(pool.content[pool.calls[g].buf])]
    /\ UNCHANGED <<p, store, generation, pc, req, resp, p2, store2, resp2,
                   filename, hide, hpc, hidden, jcall, parser, pager>>

NextPool ==
    \E g \in Callers : Get(g) \/ ResetBuffer(g) \/ Encode(g) \/ WriteTo(g)

SpecPool == InitPool /\ [][NextPool]_vars

\* a buffer is held by one call at most, and a held buffer is not in the
\* pool
HeldByOne ==
    \A g \in Callers :
        Holds(pool.calls[g]) =>
            /\ pool.calls[g].buf \notin pool.free
            /\ \A h \in Callers \ {g} :
                  Holds(pool.calls[h]) => pool.calls[h].buf # pool.calls[g].buf

\* the buffer is empty when the call starts to write to it
EmptiedBeforeWrite ==
    \A g \in Callers :
        pool.calls[g].pc = "reset" => pool.content[pool.calls[g].buf] = <<>>

\* a response holds bytes of its own call only
OwnBytesOnly ==
    \A g \in Callers :
        \A i \in 1..Len(pool.calls[g].w) :
            pool.calls[g].w[i] = [g |-> g, n |-> pool.calls[g].n]

\* the step in which a call returns leaves its buffer in the pool
PutBeforeReturn ==
    \A g \in Callers :
        (pool.calls[g].pc # "returned" /\ pool'.calls[g].pc = "returned")
            => pool.calls[g].buf \in pool'.free

(* C22: under any interleaving of concurrent GenerateJson and GenerateHtml *)
(* calls a pooled buffer is held by one call at a time, is empty before    *)
(* that call writes to it, and is back in the pool when the call returns,  *)
(* with or without error; no response holds bytes produced for another     *)
(* request.                                                                *)
C22_BufferNeverShared ==
    /\ [](pool.on => HeldByOne /\ EmptiedBeforeWrite /\ OwnBytesOnly)
    /\ [][pool.on => PutBeforeReturn]_vars

\* a call took from the pool a buffer that still holds bytes of another
\* call, while another call is at work on its own buffer
C22_Witness ==
    /\ pool.on
    /\ \E g \in Callers, h \in Callers :
          /\ g # h
          /\ pool.calls[g].pc = "got"
          /\ pool.content[pool.calls[g].buf] # <<>>
          /\ pool.content[pool.calls[g].buf][1].g = h
          /\ Holds(pool.calls[h])

----------------------------------------------------------------------------
(* Listing pages: ConstructListParams and MakePageObj (browse code) on the *)
(* store's paged listing.  The store answers a listing page by page: the   *)
(* entries under the prefix not before StartOffset, PageSize at a time,    *)
(* each page with the token of the next one.  The iterator fetches the     *)
(* next page whenever it has handed out the last entry of a page.          *)

\* the entries one page of the store holds; the query sets no MaxResults
PageSize == 2

\* the place of a character of names and tokens in the order of the codes
Ord(c) ==
    LET chars == <<"/", "C", "a", "b", "c", "d", "e">>
    IN  CHOOSE i \in 1..Len(chars) : chars[i] = c

\* a <= b in the lexicographic order the store lists and compares in
RECURSIVE LexLeq(_, _)
LexLeq(a, b) ==
    IF a = <<>>
    THEN TRUE
    ELSE IF b = <<>>
    THEN FALSE
    ELSE IF Head(a) = Head(b)
    THEN LexLeq(Tail(a), Tail(b))
    ELSE Ord(Head(a)) < Ord(Head(b))

RECURSIVE Sorted(_)
Sorted(names) ==
    IF names = {}
    THEN <<>>
    ELSE LET least == CHOOSE n \in names : \A m \in names : LexLeq(n, m)
         IN  <<least>> \o Sorted(names \ {least})

listKey == <<"/", "d", "/">>

ObjectNames ==
    {<<"d", "/", "a">>, <<"d", "/", "b">>, <<"d", "/", "c">>, <<"e">>}

\* the continuation token of the store after the entry name: opaque text
\* that starts with a capital, as base64 text of the store does
TokenAfter(name) == <<"C">> \o name

\* ConstructListParams: next is taken as StartOffset (max is ignored)
ConstructListParams(key, next) ==
    [Prefix      |-> TrimPrefix(key, <<sep>>),
     StartOffset |-> next]

\* one page of the store: of the entries the query selects, those that
\* follow the token's point, PageSize at most, and the token of the next
\* page, <<>> when the listing ends with this page
Page(names, query, token) ==
    LET cut(rest) ==
            IF Len(rest) > PageSize
            THEN [items |-> SubSeq(rest, 1, PageSize),
                  token |-> TokenAfter(rest[PageSize])]
            ELSE [items |-> rest, token |-> <<>>]
    IN  cut(Sorted({n \in names :
                      /\ HasPrefix(n, query.Prefix)
                      /\ LexLeq(query.StartOffset, n)
                      /\ token = <<>> \/ ~LexLeq(n, Tail(token))}))

\* the iterator before it hands out an entry: pages are fetched until one
\* holds an entry or the listing has ended; seen keeps the tokens received
RECURSIVE Fill(_, _, _)
Fill(it, names, query) ==
    IF it.items # <<>> \/ it.atEnd
    THEN it
    ELSE LET fetched(pg) ==
                 Fill([items |-> pg.items, token |-> pg.token,
                       atEnd |-> pg.token = <<>>,
                       seen  |-> Append(it.seen, pg.token)],
                      names, query)
         IN  fetched(Page(names, query, it.token))

\* the more link for a token: "?next=" and the token as url.Values.Encode
\* escapes it; MaxSize is 0
MoreLinkFor(token) ==
    LET esc(c) == IF c = "/" THEN <<"%", "2", "F">> ELSE <<c>>
        RECURSIVE escaped(_)
        escaped(t) ==
            IF t = <<>> THEN <<>> ELSE esc(Head(t)) \o escaped(Tail(t))
    IN  IF token = <<>>
        THEN <<>>
        ELSE <<"?", "n", "e", "x", "t", "=">> \o escaped(token)

EmptyPageObj == [Count |-> 0, Items |-> <<>>, MoreLink |-> <<>>]

InitPager ==
    /\ GatewayIdle
    /\ HiddenIdle
    /\ jcall = NoJoin
    /\ parser = NoParse
    /\ pool = NoPool
    /\ \E names \in SUBSET ObjectNames,
          next \in {<<>>} \cup {TokenAfter(n) : n \in ObjectNames} :
          pager = [pc |-> "request", names |-> names, next |-> next,
                   query |-> ConstructListParams(<<>>, <<>>),
                   it |-> [items |-> <<>>, token |-> <<>>, atEnd |-> FALSE,
                           seen |-> <<>>],
                   po |-> EmptyPageObj, err |-> FALSE]

\* the request is taken: the query is made and the iterator created
OpenListing ==
    /\ pager.pc = "request"
    /\ pager' = [pager EXCEPT
                   !.pc = "loop",
                   !.query = ConstructListParams(listKey, pager.next)]
    /\ UNCHANGED <<p, store, generation, pc, req, resp, p2, store2, resp2,
                   filename, hide, hpc, hidden, jcall, parser, pool>>

\* one turn of the loop of MakePageObj: it.Next() hands out an entry
NextEntry ==
    /\ pager.pc = "loop"
    /\ \E it \in {Fill(pager.it, pager.names, pager.query)} :
          /\ it.items # <<>>
          /\ pager' = [pager EXCEPT
                         !.it = [it EXCEPT !.items = Tail(@)],
                         !.po.Count = @ + 1,
                         !.po.Items = Append(@, Head(it.items))]
    /\ UNCHANGED <<p, store, generation, pc, req, resp, p2, store2, resp2,
                   filename, hide, hpc, hidden, jcall, parser, pool>>

\* it.Next() returns iterator.Done: the more link is made from the token
\* the iterator is left with
NextDone ==
    /\ pager.pc = "loop"
    /\ \E it \in {Fill(pager.it, pager.names, pager.query)} :
          /\ it.items = <<>>
          /\ pager' = [pager EXCEPT
                         !.pc = "done",
                         !.it = it,
                         !.po.MoreLink = MoreLinkFor(it.token)]
    /\ UNCHANGED <<p, store, generation, pc, req, resp, p2, store2, resp2,
                   filename, hide, hpc, hidden, jcall, parser, pool>>

\* it.Next() returns another error: an empty page object and the error
NextFailed ==
    /\ pager.pc = "loop"
    /\ pager' = [pager EXCEPT !.pc = "failed", !.po = EmptyPageObj,
                              !.err = TRUE]
    /\ UNCHANGED <<p, store, generation, pc, req, resp, p2, store2, resp2,
                   filename, hide, hpc, hidden, jcall, parser, pool>>

NextPager == OpenListing \/ NextEntry \/ NextDone \/ NextFailed

SpecPager == InitPager /\ [][NextPager]_vars

\* the entries under the prefix of the listing, in order
UnderPrefix ==
    Sorted({n \in pager.names : HasPrefix(n, TrimPrefix(listKey, <<sep>>))})

\* the token the store gives with the first page of the prefix, <<>> when
\* the listing has one page
FirstPageToken ==
    IF Len(UnderPrefix) > PageSize
    THEN TokenAfter(UnderPrefix[PageSize])
    ELSE <<>>

(* C21: when the store's listing for a page carries a continuation token   *)
(* the page object has a more link whose next parameter is that token, and *)
(* a request carrying that next value gets the entries that follow the     *)
(* continuation point, so that following more links visits every entry of  *)
(* the prefix once and ends at a page without more link.                   *)
C21_PaginationExhaustive ==
    pager.pc = "done" =>
        /\ pager.it.seen[1] # <<>> =>
              /\ pager.po.MoreLink = MoreLinkFor(pager.it.seen[1])
              /\ Len(pager.po.Items) = PageSize
        /\ (pager.next # <<>> /\ pager.next = FirstPageToken) =>
              \A i \in 1..Len(pager.po.Items) :
                  ~LexLeq(pager.po.Items[i], Tail(pager.next))
        /\ (pager.next = <<>> /\ pager.po.MoreLink = <<>>) =>
              pager.po.Items = UnderPrefix

=============================================================================
